---- MODULE Spec2Model ----
(***************************************************************************)
(* Ledger replay engine of core-tx-runner: process_file folds a stream of  *)
(* decoded transaction records into per-client accounts                    *)
(* (src/src/main.rs, src/src/types.rs).                                    *)
(*                                                                         *)
(* Amounts are rust_decimal Decimals: exact, with a 96-bit mantissa, and   *)
(* += and -= panic when the result leaves the representable range.  The    *)
(* model counts amounts in units of 26409387504754779197847983445, a third *)
(* of Decimal::MAX = 2^96 - 1 = 79228162514264337593543950335: every       *)
(* multiple of the unit up to 3 is an exactly representable Decimal, sums  *)
(* of such amounts are exact, and a result beyond 3 units overflows.       *)
(***************************************************************************)
EXTENDS Integers, FiniteSets, Sequences, TLC

\* ---------------------------------------------------------------- bounds
MaxClient == 2
MaxTx     == 2
MaxAmount == 2
MaxEvents == 4

\* Decimal::MAX in units
DecimalMax == 3

ClientIds == 1..MaxClient
TxIds     == 1..MaxTx
\* amounts a deposit or withdrawal row can carry: rust_decimal parses
\* negative values as well as positive ones
Amounts   == {-1} \cup (1..MaxAmount)

\* Option<Decimal>
None      == [is_some |-> FALSE, value |-> 0]
Some(v)   == [is_some |-> TRUE, value |-> v]
OptAmounts == {None} \cup {Some(v) : v \in Amounts}
\* the amount column of a dispute, resolve or chargeback row: empty, or
\* filled in with an amount that no deposit carries
RefAmounts == {None, Some(0)}

TransactionType == {"deposit", "withdrawal", "dispute", "resolve", "chargeback"}

\* types::TransactionRecord
TransactionRecord ==
    [tx_type : TransactionType, client : ClientIds, tx : TxIds,
     amount : OptAmounts \cup RefAmounts]

VARIABLES
    accounts,       \* HashMap<ClientId, Account>
    transactions,   \* HashMap<TransactionId, StoredTransaction>
    seen_tx_ids,    \* HashSet<TransactionId>
    pc,             \* "reading" while the for loop of process_file runs, then "done";
                    \* "panicked" when the process died in a Decimal overflow
    nread,          \* number of items the reader has yielded so far
    hist            \* history: what the events handled so far were

vars == <<accounts, transactions, seen_tx_ids, pc, nread, hist>>

\* Client and transaction ids are opaque keys: the code only hashes and
\* compares them.  Every input is therefore a renaming of one in which the
\* ids appear for the first time in increasing order, and the reader yields
\* only those: the next record names an id already named or the next new one.
Min(a, b) == IF a < b THEN a ELSE b
NextClientIds == 1..Min(hist.nclients + 1, MaxClient)
NextTxIds     == 1..Min(hist.ntx + 1, MaxTx)

\* the records of one type the reader can yield
Records(tx_type, amounts) ==
    {[tx_type |-> tx_type, client |-> c, tx |-> t, amount |-> a] :
        c \in NextClientIds, t \in NextTxIds, a \in amounts}

DepositRecords    == Records("deposit", OptAmounts)
WithdrawalRecords == Records("withdrawal", OptAmounts)
DisputeRecords    == Records("dispute", RefAmounts)
ResolveRecords    == Records("resolve", RefAmounts)
ChargebackRecords == Records("chargeback", RefAmounts)

\* ------------------------------------------------------- types.rs: Account
\* account that is created locked
AccountNew_locked(client) ==
    [client |-> client, available |-> 0, held |-> 0, total |-> 0, locked |-> TRUE]

AccountNew(client) ==
    [client |-> client, available |-> 0, held |-> 0, total |-> 0, locked |-> FALSE]

deposit(account, amount) ==
    [account EXCEPT !.available = @ + amount, !.total = @ + amount]

\* withdraw that debits without looking at the funds available
withdraw_unchecked(account, amount) ==
    [account EXCEPT !.available = @ - amount, !.total = @ - amount]

\* withdraw that refuses to empty the account
withdraw_strict(account, amount) ==
    IF account.available > amount
    THEN [account EXCEPT !.available = @ - amount, !.total = @ - amount]
    ELSE account

withdraw(account, amount) ==
    IF account.available >= amount
    THEN [account EXCEPT !.available = @ - amount, !.total = @ - amount]
    ELSE account

\* hold that takes the funds out of available without adding them to held
hold_funds_drops(account, amount) ==
    [account EXCEPT !.available = @ - amount]

hold_funds(account, amount) ==
    [account EXCEPT !.available = @ - amount, !.held = @ + amount]


\* release that also credits total
release_funds_credits_total(account, amount) ==
    [account EXCEPT !.held = @ - amount, !.available = @ + amount, !.total = @ + amount]

release_funds(account, amount) ==
    [account EXCEPT !.held = @ - amount, !.available = @ + amount]


\* chargeback that forgets to take the amount out of total
chargeback_keeps_total(account, amount) ==
    [account EXCEPT !.held = @ - amount, !.locked = TRUE]

\* chargeback that takes the amount from available instead of held
chargeback_from_available(account, amount) ==
    [account EXCEPT !.available = @ - amount, !.total = @ - amount, !.locked = TRUE]

\* chargeback that removes the funds but leaves the account unlocked
chargeback_no_lock(account, amount) ==
    [account EXCEPT !.held = @ - amount, !.total = @ - amount]

chargeback(account, amount) ==
    [account EXCEPT !.held = @ - amount, !.total = @ - amount, !.locked = TRUE]


\* lock check that never reports a lock
is_locked_never(account) == FALSE

is_locked(account) == account.locked

\* --------------------------------------------- types.rs: StoredTransaction
\* record that starts out disputed
StoredTransactionNew_disputed(client_id, tx_type, amount) ==
    [client_id |-> client_id, tx_type |-> tx_type, amount |-> amount, disputed |-> TRUE]

StoredTransactionNew(client_id, tx_type, amount) ==
    [client_id |-> client_id, tx_type |-> tx_type, amount |-> amount, disputed |-> FALSE]


\* eligibility check that forgets the disputed flag
can_dispute_ignores_flag(stored_tx) == stored_tx.tx_type = "deposit"

can_dispute(stored_tx) == stored_tx.tx_type = "deposit" /\ ~stored_tx.disputed


\* mark_disputed that also wipes the amount
mark_disputed_wipes_amount(stored_tx) == [stored_tx EXCEPT !.disputed = TRUE, !.amount = 0]

\* mark_disputed that leaves the flag alone
mark_disputed_noop(stored_tx) == stored_tx

mark_disputed(stored_tx) == [stored_tx EXCEPT !.disputed = TRUE]


\* mark_resolved that leaves the flag set
mark_resolved_keeps_flag(stored_tx) == stored_tx

mark_resolved(stored_tx) == [stored_tx EXCEPT !.disputed = FALSE]


\* flag read the wrong way round
is_disputed_negated(stored_tx) == ~stored_tx.disputed

\* dispute check that always answers yes
is_disputed_always(stored_tx) == TRUE

is_disputed(stored_tx) == stored_tx.disputed

\* ------------------------------------------------------------ HashMap ops
\* insert that writes the value under every key of the map
Insert_everywhere(map, k, v) == [x \in DOMAIN map \cup {k} |-> v]

\* map.insert(k, v)
Insert(map, k, v) == [x \in (DOMAIN map) \cup {k} |-> IF x = k THEN v ELSE map[x]]

\* accounts.entry(client).or_insert_with(|| Account::new(client))
EntryOrInsert(accs, client) ==
    IF client \in DOMAIN accs THEN accs ELSE Insert(accs, client, AccountNew(client))

\* -------------------------------------------- main.rs: process_transaction
\* ownership check that lets every client through
WrongClient_never(stored_tx, rec) == FALSE

\* stored_tx.client_id != record.client
WrongClient(stored_tx, rec) == stored_tx.client_id # rec.client

\* withdrawal arm that stores the withdrawal the way the deposit arm does
WithdrawalStore_inserts(txs, rec) ==
    Insert(txs, rec.tx, StoredTransactionNew(rec.client, "withdrawal", rec.amount.value))

\* "Don't store withdrawals - only deposits can be disputed": the withdrawal
\* arm leaves the transaction store alone
WithdrawalStore(txs, rec) == txs

\* s is [accounts, transactions, seen_tx_ids]; the result is the state the
\* function leaves behind.
ProcessArm(s, rec) ==
    LET accs    == EntryOrInsert(s.accounts, rec.client)
        account == accs[rec.client]
        s1      == [s EXCEPT !.accounts = accs]
        known   == rec.tx \in DOMAIN s.transactions
        stored_tx == s.transactions[rec.tx]
    IN
    IF is_locked(account) THEN s1
    ELSE CASE rec.tx_type = "deposit" ->
                IF rec.amount.is_some
                THEN [s1 EXCEPT
                        !.accounts = Insert(accs, rec.client, deposit(account, rec.amount.value)),
                        !.transactions = Insert(s.transactions, rec.tx,
                            StoredTransactionNew(rec.client, "deposit", rec.amount.value))]
                ELSE s1
           [] rec.tx_type = "withdrawal" ->
                IF rec.amount.is_some
                THEN [s1 EXCEPT
                        !.accounts = Insert(accs, rec.client, withdraw(account, rec.amount.value)),
                        !.transactions = WithdrawalStore(s.transactions, rec)]
                ELSE s1
           [] rec.tx_type = "dispute" ->
                IF known
                THEN IF WrongClient(stored_tx, rec) THEN s1
                     ELSE IF can_dispute(stored_tx)
                     THEN [s1 EXCEPT
                             !.accounts = Insert(accs, rec.client, hold_funds(account, stored_tx.amount)),
                             !.transactions = Insert(s.transactions, rec.tx, mark_disputed(stored_tx))]
                     ELSE s1
                ELSE s1
           [] rec.tx_type = "resolve" ->
                IF known
                THEN IF WrongClient(stored_tx, rec) THEN s1
                     ELSE IF is_disputed(stored_tx)
                     THEN [s1 EXCEPT
                             !.accounts = Insert(accs, rec.client, release_funds(account, stored_tx.amount)),
                             !.transactions = Insert(s.transactions, rec.tx, mark_resolved(stored_tx))]
                     ELSE s1
                ELSE s1
           [] rec.tx_type = "chargeback" ->
                IF known
                THEN IF WrongClient(stored_tx, rec) THEN s1
                     ELSE IF is_disputed(stored_tx)
                     THEN [s1 EXCEPT
                             !.accounts = Insert(accs, rec.client, chargeback(account, stored_tx.amount))]
                     ELSE s1
                ELSE s1

\* uniqueness check read the wrong way round
SeenInsertFails_negated(seen, tx) == tx \notin seen

\* uniqueness check that accepts every id
SeenInsertFails_never(seen, tx) == FALSE

\* seen_tx_ids.insert(record.tx) returns false when the id is already present
SeenInsertFails(seen, tx) == tx \in seen

process_transaction(s, rec) ==
    IF rec.tx_type \in {"deposit", "withdrawal"}
    THEN IF SeenInsertFails(s.seen_tx_ids, rec.tx)
         THEN s
         ELSE ProcessArm([s EXCEPT !.seen_tx_ids = @ \cup {rec.tx}], rec)
    ELSE ProcessArm(s, rec)

\* ------------------------------------------------- history of the run
\* What the events said, in the words of the ledger rules; updated from the
\* state before the event and the event alone.
State == [accounts |-> accounts, transactions |-> transactions, seen_tx_ids |-> seen_tx_ids]

Locked(s, c) == c \in DOMAIN s.accounts /\ s.accounts[c].locked

Available(s, c) == IF c \in DOMAIN s.accounts THEN s.accounts[c].available ELSE 0

Owned(s, rec) ==
    rec.tx \in DOMAIN s.transactions /\ s.transactions[rec.tx].client_id = rec.client

Disputed(s, tx) == tx \in DOMAIN s.transactions /\ s.transactions[tx].disputed

Duplicate(h, rec) ==
    rec.tx_type \in {"deposit", "withdrawal"} /\ rec.tx \in h.dw_ids

FreshDeposit(s, h, rec) ==
    /\ rec.tx_type = "deposit" /\ rec.amount.is_some
    /\ rec.tx \notin h.dw_ids /\ ~Locked(s, rec.client)

FreshWithdrawal(s, h, rec) ==
    /\ rec.tx_type = "withdrawal" /\ rec.amount.is_some
    /\ rec.tx \notin h.dw_ids /\ ~Locked(s, rec.client)
    /\ Available(s, rec.client) >= rec.amount.value

ValidDispute(s, rec) ==
    rec.tx_type = "dispute" /\ Owned(s, rec) /\ ~Locked(s, rec.client) /\ ~Disputed(s, rec.tx)

ValidResolve(s, rec) ==
    rec.tx_type = "resolve" /\ Owned(s, rec) /\ ~Locked(s, rec.client) /\ Disputed(s, rec.tx)

ValidChargeback(s, rec) ==
    rec.tx_type = "chargeback" /\ Owned(s, rec) /\ ~Locked(s, rec.client) /\ Disputed(s, rec.tx)

\* the rule of the ledger the event falls under
Outcome(s, h, rec) ==
    IF Duplicate(h, rec) THEN "duplicate"
    ELSE IF Locked(s, rec.client) THEN "locked"
    ELSE IF rec.tx_type \in {"deposit", "withdrawal"}
    THEN IF ~rec.amount.is_some THEN "no_amount"
         ELSE IF rec.tx_type = "deposit" THEN "deposit"
         ELSE IF FreshWithdrawal(s, h, rec) THEN "withdrawal"
         ELSE "insufficient"
    ELSE IF rec.tx \notin DOMAIN s.transactions THEN "unknown_tx"
    ELSE IF ~Owned(s, rec) THEN "wrong_client"
    ELSE IF ValidDispute(s, rec) THEN "dispute"
    ELSE IF ValidResolve(s, rec) THEN "resolve"
    ELSE IF ValidChargeback(s, rec) THEN "chargeback"
    ELSE IF rec.tx_type = "dispute" THEN "already_disputed"
    ELSE IF rec.tx_type = "resolve" THEN "not_disputed"
    ELSE "chargeback_undisputed"

HistInit ==
    [last      |-> [rule |-> "none", client |-> 0, tx |-> 0],
     nclients  |-> 0,
     ntx       |-> 0,
     dw_ids    |-> {},
     resolved  |-> {},
     cb_ids    |-> {},
     w_ids     |-> {},
     deposited |-> [c \in ClientIds |-> 0],
     withdrawn |-> [c \in ClientIds |-> 0],
     charged   |-> [c \in ClientIds |-> 0]]

HistNext(s, h, rec) ==
    [last      |-> [rule |-> Outcome(s, h, rec), client |-> rec.client, tx |-> rec.tx],
     nclients  |-> IF rec.client > h.nclients THEN rec.client ELSE h.nclients,
     ntx       |-> IF rec.tx > h.ntx THEN rec.tx ELSE h.ntx,
     dw_ids    |-> IF rec.tx_type \in {"deposit", "withdrawal"}
                   THEN h.dw_ids \cup {rec.tx} ELSE h.dw_ids,
     resolved  |-> IF ValidResolve(s, rec) THEN h.resolved \cup {rec.tx} ELSE h.resolved,
     cb_ids    |-> IF ValidChargeback(s, rec) THEN h.cb_ids \cup {rec.tx} ELSE h.cb_ids,
     w_ids     |-> IF rec.tx_type = "withdrawal" /\ ~Duplicate(h, rec)
                   THEN h.w_ids \cup {rec.tx} ELSE h.w_ids,
     deposited |-> IF FreshDeposit(s, h, rec)
                   THEN [h.deposited EXCEPT ![rec.client] = @ + rec.amount.value]
                   ELSE h.deposited,
     withdrawn |-> IF FreshWithdrawal(s, h, rec)
                   THEN [h.withdrawn EXCEPT ![rec.client] = @ + rec.amount.value]
                   ELSE h.withdrawn,
     charged   |-> IF ValidChargeback(s, rec)
                   THEN [h.charged EXCEPT ![rec.client] = @ + s.transactions[rec.tx].amount]
                   ELSE h.charged]

\* ------------------------------------------------ main.rs: process_file
Init ==
    /\ accounts = <<>>
    /\ transactions = <<>>
    /\ seen_tx_ids = {}
    /\ pc = "reading"
    /\ nread = 0
    /\ hist = HistInit

\* some balance of s is outside the range of Decimal: the += or -= that
\* computed it panicked ("Addition overflowed" / "Subtraction overflowed")
Representable(v) == -DecimalMax <= v /\ v <= DecimalMax

Overflowed(s) ==
    \E c \in DOMAIN s.accounts :
        \/ ~Representable(s.accounts[c].available)
        \/ ~Representable(s.accounts[c].held)
        \/ ~Representable(s.accounts[c].total)

\* pc is the position in process_file: "reading" at the iterator
\* (for result in reader), "looping" at the end of the loop body, where the
\* record of the iteration goes out of scope, "done" after the loop and
\* "panicked" when the process has aborted.

\* the body of the loop on Ok(r): process_transaction(r, ...); a panic
\* inside it ends the process without any output
Process(rec) ==
    /\ pc = "reading"
    /\ nread < MaxEvents
    /\ nread' = nread + 1
    /\ LET s2 == process_transaction(State, rec) IN
        IF Overflowed(s2)
        THEN /\ pc' = "panicked"
             /\ hist' = [hist EXCEPT
                            !.last = [rule |-> "panic", client |-> rec.client, tx |-> rec.tx]]
             /\ UNCHANGED <<accounts, transactions, seen_tx_ids>>
        ELSE /\ accounts' = s2.accounts
             /\ transactions' = s2.transactions
             /\ seen_tx_ids' = s2.seen_tx_ids
             /\ hist' = HistNext(State, hist, rec)
             /\ pc' = "looping"

Deposit == \E rec \in DepositRecords : Process(rec)

Withdrawal == \E rec \in WithdrawalRecords : Process(rec)

Dispute == \E rec \in DisputeRecords : Process(rec)

Resolve == \E rec \in ResolveRecords : Process(rec)

Chargeback == \E rec \in ChargebackRecords : Process(rec)

\* the body of the loop on Err(_): continue
SkipMalformed ==
    /\ pc = "reading"
    /\ nread < MaxEvents
    /\ nread' = nread + 1
    /\ hist' = [hist EXCEPT !.last = [rule |-> "error", client |-> 0, tx |-> 0]]
    /\ pc' = "looping"
    /\ UNCHANGED <<accounts, transactions, seen_tx_ids>>

\* the loop goes back to the iterator; the record just handled is dropped
NextIteration ==
    /\ pc = "looping"
    /\ pc' = "reading"
    /\ hist' = [hist EXCEPT !.last = HistInit.last]
    /\ UNCHANGED <<accounts, transactions, seen_tx_ids, nread>>

\* the iterator is exhausted: Ok(accounts)
EndOfInput ==
    /\ pc = "reading"
    /\ pc' = "done"
    /\ UNCHANGED <<accounts, transactions, seen_tx_ids, nread, hist>>

Next ==
    \/ Deposit
    \/ Withdrawal
    \/ Dispute
    \/ Resolve
    \/ Chargeback
    \/ SkipMalformed
    \/ NextIteration
    \/ EndOfInput

Spec == Init /\ [][Next]_vars

\* the same program on inputs whose deposits and withdrawals carry no
\* negative amount
NonNegOptAmounts == {a \in OptAmounts : a.value >= 0}

DepositNonNeg == \E rec \in Records("deposit", NonNegOptAmounts) : Process(rec)

WithdrawalNonNeg == \E rec \in Records("withdrawal", NonNegOptAmounts) : Process(rec)

NextNonNeg ==
    \/ DepositNonNeg
    \/ WithdrawalNonNeg
    \/ Dispute
    \/ Resolve
    \/ Chargeback
    \/ SkipMalformed
    \/ NextIteration
    \/ EndOfInput

SpecNonNeg == Init /\ [][NextNonNeg]_vars

TypeOK ==
    /\ DOMAIN accounts \subseteq ClientIds
    /\ DOMAIN transactions \subseteq TxIds
    /\ seen_tx_ids \subseteq TxIds
    /\ pc \in {"reading", "looping", "done", "panicked"}
    /\ nread \in 0..MaxEvents

\* ================================================================ claims
\* every account that existed before the step is as it was, and an account
\* the step created has zero balances and is unlocked
BalancesUnchanged ==
    /\ \A c \in DOMAIN accounts : c \in DOMAIN accounts' /\ accounts'[c] = accounts[c]
    /\ \A c \in DOMAIN accounts' : c \notin DOMAIN accounts => accounts'[c] = AccountNew(c)

NonNegativeDeposits == \A t \in DOMAIN transactions : transactions[t].amount >= 0

\* C1: after every processed event every existing account has
\* total = available + held exactly.
Thm_C1 ==
    \A c \in DOMAIN accounts :
        accounts[c].total = accounts[c].available + accounts[c].held

\* an account with funds both available and held, after a dispute
Wit_C1 ==
    \E c \in DOMAIN accounts :
        /\ accounts[c].available > 0 /\ accounts[c].held > 0
        /\ hist.last.rule = "dispute"

\* C2: once an account is locked, no later event changes its available,
\* held, total or locked; locked never returns to false.
Thm_C2 ==
    [][\A c \in DOMAIN accounts :
          accounts[c].locked => (c \in DOMAIN accounts' /\ accounts'[c] = accounts[c])]_vars

\* an event addressed to a locked account has been handled
Wit_C2 ==
    /\ hist.last.rule = "locked"
    /\ hist.last.client \in DOMAIN accounts
    /\ accounts[hist.last.client].locked

\* C3 (as claimed): with only non-negative event amounts (SpecNonNeg), every
\* unlocked account has available >= 0 after every event.
Cex_C3 ==
    \A c \in DOMAIN accounts : ~accounts[c].locked => accounts[c].available >= 0

\* C4: with non-negative deposit amounts, held >= 0 for every account,
\* locked or not, after every event.
Thm_C4 ==
    NonNegativeDeposits => \A c \in DOMAIN accounts : accounts[c].held >= 0

\* a chargeback has taken the whole held amount of an account: held is
\* exactly 0 and the account is locked
Wit_C4 ==
    /\ hist.last.rule = "chargeback"
    /\ NonNegativeDeposits
    /\ accounts[hist.last.client].locked
    /\ accounts[hist.last.client].held = 0
    /\ transactions[hist.last.tx].amount > 0

\* C5: each account's total is the sum of its applied deposits minus the
\* sum of its applied withdrawals minus its charged-back deposit; a client
\* without an account has none of these.  Disputes and resolves add to none
\* of the three sums, so they cannot change total.
Thm_C5 ==
    \A c \in ClientIds :
        hist.deposited[c] - hist.withdrawn[c] - hist.charged[c]
            = IF c \in DOMAIN accounts THEN accounts[c].total ELSE 0

\* an account with an applied deposit, an applied withdrawal and a chargeback
Wit_C5 ==
    \E c \in DOMAIN accounts :
        hist.deposited[c] > 0 /\ hist.withdrawn[c] > 0 /\ hist.charged[c] > 0

\* the step handled an event that falls under the given rule; LastClient and
\* LastTx are the client and tx id that event named
Step(rule) == nread' = nread + 1 /\ hist'.last.rule = rule
LastClient == hist'.last.client
LastTx     == hist'.last.tx

\* C6: a deposit or withdrawal whose tx id was carried by an earlier deposit
\* or withdrawal (any client, any amount) changes no balance, creates no
\* account and neither creates nor overwrites a stored transaction; hence at
\* most one deposit or withdrawal per tx id is ever applied.
Thm_C6 ==
    [][Step("duplicate") =>
          /\ accounts' = accounts
          /\ transactions' = transactions
          /\ seen_tx_ids' = seen_tx_ids]_vars

\* a duplicate id has been handled that named a client without an account,
\* and that client still has none
Wit_C6 ==
    /\ hist.last.rule = "duplicate"
    /\ hist.last.client \notin DOMAIN accounts
    /\ hist.last.tx \in DOMAIN transactions

\* C7: a dispute is accepted exactly when a stored transaction exists for its
\* tx id, is owned by the event's client, the account is unlocked and the
\* record is not disputed ("dispute"); it then moves the record's amount from
\* available to held, keeps total and sets disputed.  A dispute that fails
\* one of the four conditions changes no balance and no flag.
Thm_C7 ==
    [][/\ Step("dispute") =>
             LET before == accounts[LastClient]
                 after  == accounts'[LastClient]
                 amount == transactions[LastTx].amount
             IN /\ after.available = before.available - amount
                /\ after.held = before.held + amount
                /\ after.total = before.total
                /\ after.locked = before.locked
                /\ transactions'[LastTx] = [transactions[LastTx] EXCEPT !.disputed = TRUE]
       /\ (Step("unknown_tx") \/ Step("wrong_client") \/ Step("locked")
              \/ Step("already_disputed")) =>
             BalancesUnchanged /\ transactions' = transactions]_vars

\* a dispute has been accepted and holds the deposit's amount
Wit_C7 ==
    /\ hist.last.rule = "dispute"
    /\ Disputed(State, hist.last.tx)
    /\ accounts[hist.last.client].held = transactions[hist.last.tx].amount
    /\ accounts[hist.last.client].held > 0

\* the resolve and the dispute that name the client and tx of the last event
ResolveOfLast ==
    [tx_type |-> "resolve", client |-> LastClient, tx |-> LastTx, amount |-> None]
DisputeOfLast ==
    [tx_type |-> "dispute", client |-> LastClient, tx |-> LastTx, amount |-> None]

\* C8: a resolve is applied only to a disputed transaction of the event's own
\* unlocked client ("resolve"), moves the amount from held to available and
\* clears disputed; a resolve of a transaction that is not disputed changes
\* nothing.  A dispute followed at once by its resolve restores accounts and
\* records; after an accepted resolve a further dispute is accepted and holds
\* the amount again.
Thm_C8 ==
    [][/\ Step("resolve") =>
             LET before == accounts[LastClient]
                 after  == accounts'[LastClient]
                 amount == transactions[LastTx].amount
                 again  == process_transaction(State', DisputeOfLast)
             IN /\ after.available = before.available + amount
                /\ after.held = before.held - amount
                /\ after.total = before.total
                /\ after.locked = before.locked
                /\ transactions'[LastTx] = [transactions[LastTx] EXCEPT !.disputed = FALSE]
                /\ again.transactions[LastTx].disputed
                /\ again.accounts[LastClient].held = after.held + amount
                /\ again.accounts[LastClient].available = after.available - amount
       /\ Step("not_disputed") =>
             /\ accounts' = accounts
             /\ transactions' = transactions
       /\ Step("dispute") =>
             LET back == process_transaction(State', ResolveOfLast)
             IN back.accounts = accounts /\ back.transactions = transactions]_vars

\* a resolve has been accepted: the transaction is no longer disputed and
\* its amount is available again
Wit_C8 ==
    /\ hist.last.rule = "resolve"
    /\ hist.last.tx \in hist.resolved
    /\ ~Disputed(State, hist.last.tx)
    /\ accounts[hist.last.client].held = 0
    /\ accounts[hist.last.client].available > 0

\* C9 (as claimed): a dispute of a transaction that was disputed and then
\* resolved is ignored: no balance and no flag changes.
Cex_C9 ==
    [][\A rec \in DisputeRecords :
          (Process(rec) /\ rec.tx \in hist.resolved /\ ~Disputed(State, rec.tx)) =>
              BalancesUnchanged /\ transactions' = transactions]_vars

\* C9 (amended): a dispute of a currently disputed transaction is ignored; a
\* dispute by the owner, on an unlocked account, of a transaction that was
\* disputed and then resolved is accepted again and holds the amount again.
Thm_C9 ==
    [][/\ Step("already_disputed") =>
             /\ accounts' = accounts
             /\ transactions' = transactions
       /\ (Step("dispute") /\ LastTx \in hist.resolved) =>
             /\ transactions'[LastTx].disputed
             /\ accounts'[LastClient].held
                  = accounts[LastClient].held + transactions[LastTx].amount
             /\ accounts'[LastClient].available
                  = accounts[LastClient].available - transactions[LastTx].amount]_vars

\* a resolved transaction has been disputed again and is held again
Wit_C9 ==
    /\ hist.last.rule = "dispute"
    /\ hist.last.tx \in hist.resolved
    /\ Disputed(State, hist.last.tx)
    /\ accounts[hist.last.client].held > 0

\* C10: a chargeback is applied only to a disputed transaction of the
\* event's own unlocked client ("chargeback"); it takes the record's amount
\* out of held and total, leaves available alone, locks the account and
\* leaves the record disputed.  No other step locks an account, and an event
\* that names an unknown, foreign or undisputed transaction or a locked
\* account changes nothing.
Thm_C10 ==
    [][/\ Step("chargeback") =>
             LET before == accounts[LastClient]
                 after  == accounts'[LastClient]
                 amount == transactions[LastTx].amount
             IN /\ after.held = before.held - amount
                /\ after.total = before.total - amount
                /\ after.available = before.available
                /\ after.locked
                /\ transactions' = transactions
                /\ transactions'[LastTx].disputed
       /\ \A c \in DOMAIN accounts' :
             (accounts'[c].locked /\ ~Locked(State, c)) =>
                 Step("chargeback") /\ LastClient = c
       /\ (Step("unknown_tx") \/ Step("wrong_client") \/ Step("locked")
              \/ Step("chargeback_undisputed")) =>
             BalancesUnchanged /\ transactions' = transactions]_vars

\* a chargeback has been applied to an account whose available changed
\* after the dispute: available is not what the dispute left
Wit_C10 ==
    /\ hist.last.rule = "chargeback"
    /\ accounts[hist.last.client].locked
    /\ Disputed(State, hist.last.tx)
    /\ accounts[hist.last.client].available > 0
    /\ hist.charged[hist.last.client] > 0

\* C11: once a transaction has been charged back its record stays in the
\* store with disputed = TRUE, and no later event naming its id (a dispute,
\* resolve or chargeback from any client included) is accepted: such an event
\* changes no record and no field of any account.
Thm_C11 ==
    [][\A t \in hist.cb_ids :
          /\ t \in DOMAIN transactions'
          /\ transactions'[t].disputed
          /\ (nread' = nread + 1 /\ LastTx = t) =>
                 /\ hist'.last.rule \notin {"dispute", "resolve", "chargeback"}
                 /\ BalancesUnchanged
                 /\ transactions' = transactions]_vars

\* an event named a charged-back transaction from a client other than its
\* locked owner and was ignored; the record is still disputed
Wit_C11 ==
    /\ hist.last.tx \in hist.cb_ids
    /\ hist.last.rule = "wrong_client"
    /\ Disputed(State, hist.last.tx)
    /\ Locked(State, transactions[hist.last.tx].client_id)

\* C12: an event that names a stored transaction of another client (a
\* dispute, resolve or chargeback with a foreign client) is ignored: the
\* owner's and the issuer's balances and locked flags are unchanged and the
\* record keeps its disputed flag.
Thm_C12 ==
    [][(/\ nread' = nread + 1
        /\ LastTx \in DOMAIN transactions
        /\ transactions[LastTx].client_id # LastClient) =>
           LET owner == transactions[LastTx].client_id IN
           /\ hist'.last.rule \in {"wrong_client", "locked", "duplicate"}
           /\ accounts'[owner] = accounts[owner]
           /\ LastClient \in DOMAIN accounts =>
                  accounts'[LastClient] = accounts[LastClient]
           /\ (LastClient \notin DOMAIN accounts /\ LastClient \in DOMAIN accounts') =>
                  accounts'[LastClient] = AccountNew(LastClient)
           /\ transactions'[LastTx].disputed = transactions[LastTx].disputed]_vars

\* a foreign client named a transaction whose owner has funds available and
\* was ignored under the client check
Wit_C12 ==
    /\ hist.last.rule = "wrong_client"
    /\ hist.last.tx \in DOMAIN transactions
    /\ transactions[hist.last.tx].client_id # hist.last.client
    /\ accounts[transactions[hist.last.tx].client_id].available > 0
    /\ ~Locked(State, hist.last.client)

\* C13: no record is ever stored under a transaction id consumed by a
\* withdrawal event (a withdrawal that passed the uniqueness check), so an
\* event naming such an id (a dispute, resolve or chargeback included) is
\* never accepted and changes no balance, lock or disputed flag.
Thm_C13 ==
    [][/\ DOMAIN transactions' \cap hist'.w_ids = {}
       /\ (nread' = nread + 1 /\ LastTx \in hist.w_ids) =>
              /\ hist'.last.rule \notin {"dispute", "resolve", "chargeback"}
              /\ BalancesUnchanged
              /\ transactions' = transactions]_vars

\* a reference event named the id of an applied withdrawal, on an unlocked
\* account, and found no record
Wit_C13 ==
    /\ hist.last.rule = "unknown_tx"
    /\ hist.last.tx \in hist.w_ids
    /\ hist.withdrawn[hist.last.client] > 0
    /\ ~Locked(State, hist.last.client)

\* C14: a withdrawal with a fresh id on an unlocked account debits exactly
\* when available >= amount ("withdrawal"): available and total each go down
\* by the amount, held and locked stay; when available < amount
\* ("insufficient") available, held, total and locked are all unchanged.
Thm_C14 ==
    [][/\ Step("withdrawal") =>
             LET before == EntryOrInsert(accounts, LastClient)[LastClient]
                 after  == accounts'[LastClient]
                 amount == hist'.withdrawn[LastClient] - hist.withdrawn[LastClient]
             IN /\ before.available >= amount
                /\ after.available = before.available - amount
                /\ after.total = before.total - amount
                /\ after.held = before.held
                /\ after.locked = before.locked
       /\ Step("insufficient") =>
             /\ BalancesUnchanged
             /\ accounts'[LastClient] = EntryOrInsert(accounts, LastClient)[LastClient]]_vars

\* a withdrawal larger than the funds available was refused on an account
\* that has funds
Wit_C14 ==
    /\ hist.last.rule = "insufficient"
    /\ accounts[hist.last.client].available > 0
    /\ hist.deposited[hist.last.client] > 0

\* the rules under which an event is ignored, as C15 lists them
IgnoredRules ==
    {"duplicate", "insufficient", "unknown_tx", "wrong_client", "locked", "no_amount"}

IgnoredStep == nread' = nread + 1 /\ hist'.last.rule \in IgnoredRules

RetryOfLast ==
    [tx_type |-> "deposit", client |-> LastClient, tx |-> LastTx, amount |-> Some(1)]

\* C16 (as claimed): a deposit or withdrawal without an amount, on an
\* unlocked account, is ignored before the uniqueness check: its id is not
\* marked as used, and a well-formed deposit with the same id that comes next
\* is applied and stored as a disputable record.
Cex_C16 ==
    [][Step("no_amount") =>
          /\ LastTx \notin seen_tx_ids'
          /\ LastTx \in DOMAIN process_transaction(State', RetryOfLast).transactions]_vars

\* C17 (as claimed): no condition of the data produces a fatal error: the
\* run never aborts while reading, every item is considered in input order
\* and a decode failure neither changes the state nor stops the run.
Cex_C17 ==
    /\ pc # "panicked"
    /\ hist.last.rule = "error" => pc = "looping"

\* the records of client c whose amount is counted in held: disputed and
\* not charged back
HoldingTxs(c) ==
    {t \in DOMAIN transactions :
        /\ transactions[t].client_id = c
        /\ transactions[t].disputed
        /\ t \notin hist.cb_ids}

RECURSIVE SumAmounts(_)
SumAmounts(txs) ==
    IF txs = {} THEN 0
    ELSE LET t == CHOOSE x \in txs : TRUE
         IN transactions[t].amount + SumAmounts(txs \ {t})

\* C18: after every event, the held of every account is the sum of the
\* original amounts of its client's records whose disputed flag is true,
\* leaving out the charged-back record of a locked account; a charged-back
\* record stays disputed and belongs to a locked account.
Thm_C18 ==
    /\ \A c \in DOMAIN accounts : accounts[c].held = SumAmounts(HoldingTxs(c))
    /\ \A t \in hist.cb_ids :
          /\ Disputed(State, t)
          /\ Locked(State, transactions[t].client_id)
    /\ \A t \in DOMAIN transactions :
          transactions[t].client_id \in DOMAIN accounts

\* a chargeback emptied held while its record stays disputed
Wit_C18 ==
    /\ hist.last.rule = "chargeback"
    /\ Disputed(State, hist.last.tx)
    /\ hist.last.tx \in hist.cb_ids
    /\ transactions[hist.last.tx].amount > 0
    /\ accounts[hist.last.client].held = 0

\* the accepted chargebacks of client c
ChargedBack(h, txs, c) == {t \in h.cb_ids : txs[t].client_id = c}

\* C19: an account is locked if and only if a chargeback of one of its own
\* disputed deposits has been accepted, and no account has more than one
\* accepted chargeback; a chargeback naming an unknown transaction, another
\* client's transaction or a transaction that is not disputed locks no
\* account and changes no balance.
Thm_C19 ==
    [][/\ \A c \in DOMAIN accounts' :
             /\ accounts'[c].locked <=> ChargedBack(hist', transactions', c) # {}
             /\ Cardinality(ChargedBack(hist', transactions', c)) <= 1
       /\ (nread' = nread + 1 /\ hist'.cb_ids = hist.cb_ids) =>
             \A c \in DOMAIN accounts' : accounts'[c].locked => Locked(State, c)
       /\ Step("chargeback_undisputed") =>
             /\ BalancesUnchanged
             /\ hist'.cb_ids = hist.cb_ids
             /\ ~accounts'[LastClient].locked]_vars

\* a chargeback of a transaction whose dispute was resolved was ignored and
\* left the account unlocked
Wit_C19 ==
    /\ hist.last.rule = "chargeback_undisputed"
    /\ hist.last.tx \in hist.resolved
    /\ ~Locked(State, hist.last.client)
    /\ ChargedBack(hist, transactions, hist.last.client) = {}

\* C20 (as claimed): amounts are validated before the balance primitives
\* are called, so an applied deposit never decreases available or total and
\* an applied withdrawal never increases them.
Cex_C20 ==
    [][LET before == EntryOrInsert(accounts, LastClient)[LastClient]
           after  == accounts'[LastClient]
       IN /\ Step("deposit") =>
                after.available >= before.available /\ after.total >= before.total
          /\ Step("withdrawal") =>
                after.available <= before.available /\ after.total <= before.total]_vars

\* C21: a dispute, resolve or chargeback that names an id no deposit has
\* used yet is ignored and leaves no trace ("unknown_tx"); a deposit with that
\* id that comes next is applied in full and its record starts undisputed.
\* Had the deposit come first and a dispute second, the amount would be held:
\* the two orders of the same two events end in different account tables
\* (stated for a deposit the balances have room for).
Thm_C21 ==
    [][(Step("unknown_tx") /\ LastTx \notin seen_tx_ids) =>
          LET before == EntryOrInsert(accounts, LastClient)[LastClient]
              stored == StoredTransactionNew(LastClient, "deposit", 1)
          IN /\ BalancesUnchanged
             /\ transactions' = transactions
             /\ seen_tx_ids' = seen_tx_ids
             /\ before.total < DecimalMax =>
                    /\ process_transaction(State', RetryOfLast) =
                           [accounts |-> Insert(accounts', LastClient,
                                [before EXCEPT !.available = @ + 1, !.total = @ + 1]),
                            transactions |-> Insert(transactions, LastTx, stored),
                            seen_tx_ids |-> seen_tx_ids \cup {LastTx}]
                    /\ process_transaction(
                           process_transaction(State, RetryOfLast), DisputeOfLast) =
                           [accounts |-> Insert(accounts', LastClient,
                                [before EXCEPT !.held = @ + 1, !.total = @ + 1]),
                            transactions |-> Insert(transactions, LastTx,
                                [stored EXCEPT !.disputed = TRUE]),
                            seen_tx_ids |-> seen_tx_ids \cup {LastTx}]]_vars

\* a reference event named an id that no deposit or withdrawal has used, on
\* an unlocked account that already has funds, and was ignored
Wit_C21 ==
    /\ hist.last.rule = "unknown_tx"
    /\ hist.last.tx \notin seen_tx_ids
    /\ ~Locked(State, hist.last.client)
    /\ accounts[hist.last.client].available > 0

\* the step processed a decoded event (it did not skip a record and did not
\* abort)
EventStep == nread' = nread + 1 /\ hist'.last.rule \notin {"error", "panic"}

\* the accounts the step created
Created == DOMAIN accounts' \ DOMAIN accounts

\* C22 (as claimed): an account exists for a client from the first event
\* referencing that client onward, ignored events included, and is never
\* deleted.
Cex_C22 ==
    [][/\ DOMAIN accounts \subseteq DOMAIN accounts'
       /\ EventStep => LastClient \in DOMAIN accounts']_vars

\* C22 (amended): no account is ever deleted.  Every decoded event other than
\* a deposit or withdrawal with an already used id leaves its client with an
\* account, ignored events (such as a dispute of an unknown transaction)
\* included; a duplicate creates none.  A step creates no account but that of
\* its event's client, and a created account is the zero-balance unlocked
\* account with the event's own effect applied: untouched by an ignored
\* event, credited by a deposit, debited by a withdrawal.
Thm_C22 ==
    [][/\ DOMAIN accounts \subseteq DOMAIN accounts'
       /\ (EventStep /\ hist'.last.rule # "duplicate") => LastClient \in DOMAIN accounts'
       /\ Step("duplicate") => accounts' = accounts
       /\ \A c \in Created :
             LET a == accounts'[c]
                 d == hist'.deposited[c] - hist.deposited[c]
                 w == hist'.withdrawn[c] - hist.withdrawn[c]
             IN /\ EventStep /\ c = LastClient
                /\ hist'.last.rule \in
                       {"deposit", "withdrawal", "insufficient", "no_amount", "unknown_tx",
                        "wrong_client"}
                /\ a.client = c /\ a.held = 0 /\ ~a.locked
                /\ a.available = d - w /\ a.total = d - w
                /\ hist'.last.rule \notin {"deposit", "withdrawal"} => d = 0 /\ w = 0]_vars

\* the first event of the run was a dispute, resolve or chargeback of an
\* unknown transaction and left its client with a zero account
Wit_C22 ==
    /\ nread = 1
    /\ hist.last.rule = "unknown_tx"
    /\ hist.last.client \in DOMAIN accounts
    /\ accounts[hist.last.client].total = 0
    /\ ~accounts[hist.last.client].locked

\* C23: processing one event changes at most the account of the event's own
\* client and at most the record stored under the event's tx id; every other
\* account and record is left as it was and none is added or removed.  A
\* skipped record changes no account and no record at all.
Thm_C23 ==
    [][/\ EventStep =>
             /\ DOMAIN accounts \subseteq DOMAIN accounts'
             /\ DOMAIN accounts' \subseteq DOMAIN accounts \cup {LastClient}
             /\ \A c \in DOMAIN accounts \ {LastClient} : accounts'[c] = accounts[c]
             /\ DOMAIN transactions \subseteq DOMAIN transactions'
             /\ DOMAIN transactions' \subseteq DOMAIN transactions \cup {LastTx}
             /\ \A t \in DOMAIN transactions \ {LastTx} : transactions'[t] = transactions[t]
       /\ ~EventStep => accounts' = accounts /\ transactions' = transactions]_vars

\* a dispute was applied while another client has funds and another record
\* is stored
Wit_C23 ==
    /\ hist.last.rule = "dispute"
    /\ \E c \in DOMAIN accounts : c # hist.last.client /\ accounts[c].available > 0
    /\ \E t \in DOMAIN transactions : t # hist.last.tx /\ ~transactions[t].disputed

\* C24: records are write-once.  A record is created only by an applied
\* deposit, under that deposit's id, with its client and amount and
\* undisputed; a stored record is never deleted and keeps its client, amount
\* and deposit origin for good (only disputed may change); every record is of
\* deposit origin and its id is in the set of used ids.
Thm_C24 ==
    [][/\ \A t \in DOMAIN transactions :
             /\ t \in DOMAIN transactions'
             /\ transactions'[t].client_id = transactions[t].client_id
             /\ transactions'[t].amount = transactions[t].amount
             /\ transactions'[t].tx_type = transactions[t].tx_type
       /\ \A t \in DOMAIN transactions' \ DOMAIN transactions :
             /\ Step("deposit")
             /\ t = LastTx
             /\ t \notin seen_tx_ids
             /\ transactions'[t] =
                    [client_id |-> LastClient, tx_type |-> "deposit",
                     amount |-> hist'.deposited[LastClient] - hist.deposited[LastClient],
                     disputed |-> FALSE]
       /\ Step("deposit") => LastTx \in DOMAIN transactions' \ DOMAIN transactions
       /\ \A t \in DOMAIN transactions' :
             transactions'[t].tx_type = "deposit" /\ t \in seen_tx_ids']_vars

\* a deposit of another client reused the id of a stored record that is under
\* dispute and the record is still its first owner's
Wit_C24 ==
    /\ hist.last.rule = "duplicate"
    /\ hist.last.tx \in DOMAIN transactions
    /\ transactions[hist.last.tx].client_id # hist.last.client
    /\ transactions[hist.last.tx].disputed
    /\ transactions[hist.last.tx].amount > 0

\* the step handled a deposit or withdrawal with a fresh id that was not
\* applied because the account is locked or the funds are insufficient
UnappliedStep ==
    /\ Step("locked") \/ Step("insufficient")
    /\ LastTx \notin hist.dw_ids
    /\ LastTx \in hist'.dw_ids

\* the deposits and withdrawals, of any client and amount, that reuse the id
\* of the event just processed
ReusesOfLast ==
    {[tx_type |-> ty, client |-> c, tx |-> LastTx, amount |-> a] :
        ty \in {"deposit", "withdrawal"}, c \in ClientIds, a \in OptAmounts}

\* C25: a deposit or withdrawal with a fresh id that is not applied because
\* its account is locked or its funds are insufficient changes no balance and
\* stores no record, yet its id is used from then on: every deposit or
\* withdrawal that reuses the id, from any client, leaves the state as it is.
\* A used id without a record never gets one.
Thm_C25 ==
    [][/\ UnappliedStep =>
             /\ BalancesUnchanged
             /\ transactions' = transactions
             /\ LastTx \notin seen_tx_ids
             /\ LastTx \in seen_tx_ids'
             /\ \A rec \in ReusesOfLast : process_transaction(State', rec) = State'
       /\ \A t \in seen_tx_ids :
             /\ t \in seen_tx_ids'
             /\ t \notin DOMAIN transactions => t \notin DOMAIN transactions']_vars

\* a deposit or withdrawal reached a locked account and left a used id
\* without a record
Wit_C25 ==
    /\ hist.last.rule = "locked"
    /\ Locked(State, hist.last.client)
    /\ hist.last.tx \in seen_tx_ids
    /\ hist.last.tx \notin DOMAIN transactions
    /\ hist.last.tx \notin hist.cb_ids

====
